---- MODULE Spec2Model ----
(***************************************************************************)
(* Model of shelly-monitor.py: the ShellyMonitor session (sampling loop,   *)
(* change detector, interval analysis, output generation) and main().      *)
(*                                                                         *)
(* The loop of monitor() is modelled statement by statement, because the   *)
(* SIGINT handler (handle_exit) runs between any two statements of the     *)
(* main thread.  Optional values (Python None) are modelled as sequences   *)
(* of length 0 or 1.  Durations and formatted floats are in tenths.        *)
(***************************************************************************)
EXTENDS Integers, Sequences, FiniteSets

VARIABLES
    pc,                \* position of the main thread in main()/monitor()/save_and_plot()
    running,           \* self.running
    data,              \* self.data: sequence of <<timestamp, power>>
    last_measurement,  \* self.last_measurement (optional)
    intervals,         \* self.intervals
    last_change_idx,   \* self.last_change_idx (optional)
    current_idx,       \* local current_idx of monitor()
    power,             \* local power of monitor() (optional)
    now,               \* the wall clock, in loop ticks
    analysis,          \* value returned by the latest analyze_intervals() (optional)
    analyses,          \* number of calls of analyze_intervals() so far
    csv_file,          \* content of self.csv_file on disk (optional)
    plot_file,         \* content of self.plot_file on disk (optional)
    analysis_file,     \* content of self.analysis_file on disk (optional)
    no_data_notice,    \* "No data collected!" has been printed
    late               \* history: readings appended while self.running was False

vars == <<pc, running, data, last_measurement, intervals, last_change_idx,
          current_idx, power, now, analysis, analyses, csv_file, plot_file,
          analysis_file, no_data_notice, late>>

session == <<data, last_measurement, intervals, last_change_idx>>
files == <<csv_file, plot_file, analysis_file, no_data_notice>>

(* ------------------------------ bounds -------------------------------- *)

\* Number of loop iterations (polls) a session may make.
MaxTicks == 7

\* Number of further calls of analyze_intervals() made on a finished session.
MaxCalls == 2

\* Number of loop iterations a session may make where fairness is assumed.
MaxFairTicks == 5

\* The power values the device may report.
Powers == {3, 5, 7}

(* ------------------------- Python values ------------------------------ *)

None == <<>>
Some(x) == <<x>>
Val(o) == o[1]

\* self.sampling_period = 1.0 seconds, in tenths of a second.
sampling_period == 10

(* ------------------------- pure helpers ------------------------------- *)

\* min(list) and max(list) of Python: a left-to-right scan keeping the best.
RECURSIVE py_min_from(_, _, _)
py_min_from(s, i, best) ==
    IF i > Len(s) THEN best
    ELSE py_min_from(s, i + 1, IF s[i] < best THEN s[i] ELSE best)

py_min(s) == py_min_from(s, 2, s[1])

RECURSIVE py_max_from(_, _, _)
py_max_from(s, i, best) ==
    IF i > Len(s) THEN best
    ELSE py_max_from(s, i + 1, IF s[i] > best THEN s[i] ELSE best)

py_max(s) == py_max_from(s, 2, s[1])

\* sum(list) of Python: left-to-right accumulation from 0.
RECURSIVE py_sum_from(_, _, _)
py_sum_from(s, i, acc) ==
    IF i > Len(s) THEN acc ELSE py_sum_from(s, i + 1, acc + s[i])

py_sum(s) == py_sum_from(s, 1, 0)

\* f"{x:.1f}" for the float x = num / den, as a number of tenths: the float
\* quotient rounded to one decimal.  With fewer than 20 gaps averaged, a
\* quotient that lies halfway between two tenths is a multiple of 1/4, exact in
\* binary, and is rounded to the even tenth; every other quotient is rounded
\* to the nearest tenth.  Multiplying by sampling_period = 1.0 is exact.
fmt_1f(num, den) ==
    LET n == 10 * num
        q == n \div den
        r == n % den
    IN  IF 2 * r < den THEN q
        ELSE IF 2 * r > den THEN q + 1
        ELSE IF q % 2 = 0 THEN q ELSE q + 1

\* intervals[1:]: the discard taken from the head of the list instead.
head_discard(iv) == SubSeq(iv, 2, Len(iv))

\* intervals[:-1]: a copy of the list without its last element.
tail_discard(iv) == SubSeq(iv, 1, Len(iv) - 1)

\* min_samples > 2: the boundary value 2 excluded.
recommend_above_two(min_samples) == min_samples > 2

\* min_samples >= 2
recommend(min_samples) == min_samples >= 2

\* len(self.intervals) < 3: two gaps required after the discard.
too_few_after_discard(iv) == Len(iv) < 3

\* len(self.intervals) < 1: only an empty gap list is refused up front.
too_few_none(iv) == Len(iv) < 1

\* len(self.intervals) < 2
too_few(iv) == Len(iv) < 2

NotEnoughData == << <<"Not enough data for analysis">> >>
NotEnoughIntervals == << <<"Not enough intervals for analysis">> >>

\* The string analyze_intervals() returns, as its sequence of lines; a line is
\* its fixed text followed by the numbers formatted into it.
analyze_intervals(ivs, d) ==
    IF too_few(ivs) THEN NotEnoughData
    ELSE LET iv == tail_discard(ivs) IN
         IF iv = <<>> THEN NotEnoughIntervals
         ELSE LET min_samples == py_min(iv)
                  sum_samples == py_sum(iv)
                  max_samples == py_max(iv)
              IN  << <<"Total samples collected", Len(d)>>,
                     <<"Number of value changes", Len(ivs)>>,
                     <<"Intervals between value changes">>,
                     <<"Minimum", min_samples,
                       fmt_1f(min_samples * sampling_period, 10)>>,
                     <<"Average", fmt_1f(sum_samples, Len(iv)),
                       fmt_1f(sum_samples * sampling_period, Len(iv) * 10)>>,
                     <<"Maximum", max_samples,
                       fmt_1f(max_samples * sampling_period, 10)>> >>
                  \o (IF recommend(min_samples)
                      THEN << <<"You can safely increase the sampling interval to",
                                fmt_1f(sampling_period * 2, 10)>>,
                              <<"minimum interval between changes was",
                                min_samples>> >>
                      ELSE <<>>)

(* ------------------------------ state --------------------------------- *)

\* ShellyMonitor.__init__ followed by "current_idx = 0" of monitor().
Init ==
    /\ pc = "loop"
    /\ running = TRUE
    /\ data = <<>>
    /\ last_measurement = None
    /\ intervals = <<>>
    /\ last_change_idx = None
    /\ current_idx = 0
    /\ power = None
    /\ now = 0
    /\ analysis = None
    /\ analyses = 0
    /\ csv_file = None
    /\ plot_file = None
    /\ analysis_file = None
    /\ no_data_notice = FALSE
    /\ late = 0

(* --------------------------- change detector -------------------------- *)

\* check_value_change with "is not" for "!=": two floats parsed from two
\* responses are distinct objects, so every reading after the first registers.
check_value_change_identity(p, idx) ==
    IF last_measurement = None
    THEN /\ last_measurement' = Some(p)
         /\ last_change_idx' = Some(idx)
         /\ UNCHANGED intervals
    ELSE /\ intervals' = IF last_change_idx # None
                         THEN Append(intervals, idx - Val(last_change_idx))
                         ELSE intervals
         /\ last_measurement' = Some(p)
         /\ last_change_idx' = Some(idx)

\* check_value_change without "self.last_measurement = power" in the change
\* branch: the detector keeps comparing with the first reading.
check_value_change_stale(p, idx) ==
    IF last_measurement = None
    THEN /\ last_measurement' = Some(p)
         /\ last_change_idx' = Some(idx)
         /\ UNCHANGED intervals
    ELSE IF Val(last_measurement) # p
    THEN /\ intervals' = IF last_change_idx # None
                         THEN Append(intervals, idx - Val(last_change_idx))
                         ELSE intervals
         /\ last_change_idx' = Some(idx)
         /\ UNCHANGED last_measurement
    ELSE UNCHANGED <<last_measurement, last_change_idx, intervals>>

\* check_value_change whose first branch leaves last_change_idx at None, so
\* that the guard "last_change_idx is not None" skips the first interval.
check_value_change_skip_first(p, idx) ==
    IF last_measurement = None
    THEN /\ last_measurement' = Some(p)
         /\ UNCHANGED <<last_change_idx, intervals>>
    ELSE IF Val(last_measurement) # p
    THEN /\ intervals' = IF last_change_idx # None
                         THEN Append(intervals, idx - Val(last_change_idx))
                         ELSE intervals
         /\ last_measurement' = Some(p)
         /\ last_change_idx' = Some(idx)
    ELSE UNCHANGED <<last_measurement, last_change_idx, intervals>>

\* check_value_change(power, current_idx)
check_value_change(p, idx) ==
    IF last_measurement = None
    THEN /\ last_measurement' = Some(p)
         /\ last_change_idx' = Some(idx)
         /\ UNCHANGED intervals
    ELSE IF Val(last_measurement) # p
    THEN /\ intervals' = IF last_change_idx # None
                         THEN Append(intervals, idx - Val(last_change_idx))
                         ELSE intervals
         /\ last_measurement' = Some(p)
         /\ last_change_idx' = Some(idx)
    ELSE UNCHANGED <<last_measurement, last_change_idx, intervals>>

(* ------------------------------ signal -------------------------------- *)

\* handle_exit flipping the flag (self.running = not self.running): a second
\* signal resumes the session.
HandleExitToggle ==
    /\ pc \notin {"exit", "crashed"}
    /\ running' = ~running
    /\ UNCHANGED <<pc, session, current_idx, power, now, analysis, analyses, files>>
    /\ UNCHANGED late

\* handle_exit: the SIGINT handler, delivered at any point while the process
\* lives.
HandleExit ==
    /\ pc \notin {"exit", "crashed"}
    /\ running' = FALSE
    /\ UNCHANGED <<pc, session, current_idx, power, now, analysis, analyses, files>>
    /\ UNCHANGED late

(* ------------------------------ monitor() ----------------------------- *)

\* "while True:": the flag is never looked at.
LoopTestForever ==
    /\ pc = "loop"
    /\ now < MaxTicks
    /\ pc' = "poll"
    /\ UNCHANGED <<running, session, current_idx, power, now, analysis, analyses, files>>
    /\ UNCHANGED late

\* while self.running:
LoopTest ==
    /\ pc = "loop"
    /\ IF running THEN now < MaxTicks /\ pc' = "poll" ELSE pc' = "save"
    /\ UNCHANGED <<running, session, current_idx, power, now, analysis, analyses, files>>
    /\ UNCHANGED late

\* power = self.get_power(), the device answering with a power value
PollOk ==
    /\ pc = "poll"
    /\ \E p \in Powers : power' = Some(p)
    /\ pc' = "append"
    /\ UNCHANGED <<running, session, current_idx, now, analysis, analyses, files>>
    /\ UNCHANGED late

\* A failed poll with "current_idx += 1" outside the "if": the failure
\* consumes a sample index.
PollFailAdvance ==
    /\ pc = "poll"
    /\ power' = None
    /\ current_idx' = current_idx + 1
    /\ pc' = "sleep"
    /\ UNCHANGED <<running, session, now, analysis, analyses, files>>
    /\ UNCHANGED late

\* power = self.get_power(), the request failing: get_power returns None and
\* "if power is not None" skips the body
PollFail ==
    /\ pc = "poll"
    /\ power' = None
    /\ pc' = "sleep"
    /\ UNCHANGED <<running, session, current_idx, now, analysis, analyses, files>>
    /\ UNCHANGED late

\* The append followed by "if not self.running: break": the loop is left with
\* the new reading in the log and nothing else done with it.
AppendReadingBreak ==
    /\ pc = "append"
    /\ data' = Append(data, <<now, Val(power)>>)
    /\ late' = IF running THEN late ELSE late + 1
    /\ pc' = IF running THEN "detect" ELSE "save"
    /\ UNCHANGED <<running, last_measurement, intervals, last_change_idx,
                   current_idx, power, now, analysis, analyses, files>>

\* self.data.insert(0, [timestamp, power]): the newest reading put first.
AppendReadingFront ==
    /\ pc = "append"
    /\ data' = <<<<now, Val(power)>>>> \o data
    /\ late' = IF running THEN late ELSE late + 1
    /\ pc' = "detect"
    /\ UNCHANGED <<running, last_measurement, intervals, last_change_idx,
                   current_idx, power, now, analysis, analyses, files>>

\* timestamp = datetime.now(); self.data.append([timestamp, power])
AppendReading ==
    /\ pc = "append"
    /\ data' = Append(data, <<now, Val(power)>>)
    /\ late' = IF running THEN late ELSE late + 1
    /\ pc' = "detect"
    /\ UNCHANGED <<running, last_measurement, intervals, last_change_idx,
                   current_idx, power, now, analysis, analyses, files>>

\* self.check_value_change(power, current_idx)
Detect ==
    /\ pc = "detect"
    /\ check_value_change(Val(power), current_idx)
    /\ pc' = "incr"
    /\ UNCHANGED <<running, data, current_idx, power, now, analysis, analyses, files>>
    /\ UNCHANGED late

\* The sample index taken from the loop's tick count instead of being counted.
IncrementByTick ==
    /\ pc = "incr"
    /\ current_idx' = now + 1
    /\ pc' = "sleep"
    /\ UNCHANGED <<running, session, power, now, analysis, analyses, files>>
    /\ UNCHANGED late

\* current_idx += 1
Increment ==
    /\ pc = "incr"
    /\ current_idx' = current_idx + 1
    /\ pc' = "sleep"
    /\ UNCHANGED <<running, session, power, now, analysis, analyses, files>>
    /\ UNCHANGED late

\* time.sleep(sleep_time): the rest of the sampling period passes
Sleep ==
    /\ pc = "sleep"
    /\ now' = now + 1
    /\ pc' = "loop"
    /\ UNCHANGED <<running, session, current_idx, power, analysis, analyses, files>>
    /\ UNCHANGED late

(* --------------------------- save_and_plot() -------------------------- *)

\* The no-data branch without its "return": the notice is printed and the CSV
\* is written all the same.
SaveNoDataFallThrough ==
    /\ pc = "save"
    /\ data = <<>>
    /\ no_data_notice' = TRUE
    /\ csv_file' = Some(data)
    /\ pc' = "plot"
    /\ UNCHANGED <<running, session, current_idx, power, now, analysis, analyses,
                   plot_file, analysis_file>>
    /\ UNCHANGED late

\* if not self.data: print("No data collected!"); return
SaveNoData ==
    /\ pc = "save"
    /\ data = <<>>
    /\ no_data_notice' = TRUE
    /\ pc' = "exit"
    /\ UNCHANGED <<running, session, current_idx, power, now, analysis, analyses,
                   csv_file, plot_file, analysis_file>>
    /\ UNCHANGED late

\* df = pd.DataFrame(self.data, ...); df.to_csv(self.csv_file, index=False)
SaveCsv ==
    /\ pc = "save"
    /\ data # <<>>
    /\ csv_file' = Some(data)
    /\ pc' = "plot"
    /\ UNCHANGED <<running, session, current_idx, power, now, analysis, analyses,
                   plot_file, analysis_file, no_data_notice>>
    /\ UNCHANGED late

\* df.to_csv raising (the file cannot be created): the exception propagates
\* out of main() and the process dies.
SaveCsvFail ==
    /\ pc = "save"
    /\ data # <<>>
    /\ pc' = "crashed"
    /\ UNCHANGED <<running, session, current_idx, power, now, analysis, analyses,
                   files, late>>

\* plt.savefig raising: the exception propagates.
SavePlotFail ==
    /\ pc = "plot"
    /\ pc' = "crashed"
    /\ UNCHANGED <<running, session, current_idx, power, now, analysis, analyses,
                   files, late>>

\* plt.plot(df["timestamp"], df["power"]); plt.savefig(self.plot_file)
SavePlot ==
    /\ pc = "plot"
    /\ plot_file' = Some(data)
    /\ pc' = "analyze"
    /\ UNCHANGED <<running, session, current_idx, power, now, analysis, analyses,
                   csv_file, analysis_file, no_data_notice>>
    /\ UNCHANGED late

\* analyze_intervals() discarding the trailing gap in place
\* (self.intervals.pop()) instead of slicing a copy.
CallAnalyzeInPlace ==
    /\ analysis' = Some(analyze_intervals(intervals, data))
    /\ analyses' = analyses + 1
    /\ intervals' = IF too_few(intervals) THEN intervals ELSE tail_discard(intervals)
    /\ UNCHANGED <<data, last_measurement, last_change_idx>>

\* One call of self.analyze_intervals(): it returns the text and stores nothing.
CallAnalyze ==
    /\ analysis' = Some(analyze_intervals(intervals, data))
    /\ analyses' = analyses + 1
    /\ UNCHANGED session

\* analysis = self.analyze_intervals()
Analyze ==
    /\ pc = "analyze"
    /\ CallAnalyze
    /\ pc' = "write"
    /\ UNCHANGED <<running, current_idx, power, now, files>>
    /\ UNCHANGED late

\* The summary printed with print(self.analyze_intervals()) instead of
\* print(analysis): the analyzer runs a second time.
WriteAnalysisReanalyze ==
    /\ pc = "write"
    /\ analysis_file' = analysis
    /\ analysis' = Some(analyze_intervals(intervals, data))
    /\ analyses' = analyses + 1
    /\ pc' = "exit"
    /\ UNCHANGED <<running, session, current_idx, power, now,
                   csv_file, plot_file, no_data_notice>>
    /\ UNCHANGED late

\* with open(self.analysis_file, "w") as f: f.write(analysis)
WriteAnalysis ==
    /\ pc = "write"
    /\ analysis_file' = analysis
    /\ pc' = "exit"
    /\ UNCHANGED <<running, session, current_idx, power, now, analysis, analyses,
                   csv_file, plot_file, no_data_notice>>
    /\ UNCHANGED late

\* open(self.analysis_file, "w") raising: the exception propagates.
WriteAnalysisFail ==
    /\ pc = "write"
    /\ pc' = "crashed"
    /\ UNCHANGED <<running, session, current_idx, power, now, analysis, analyses,
                   files, late>>

(* --------------------------- specifications --------------------------- *)

Next ==
    \/ HandleExit
    \/ LoopTest
    \/ PollOk
    \/ PollFail
    \/ AppendReading
    \/ Detect
    \/ Increment
    \/ Sleep
    \/ SaveNoData
    \/ SaveCsv
    \/ SavePlot
    \/ Analyze
    \/ WriteAnalysis
    \/ SaveCsvFail
    \/ SavePlotFail
    \/ WriteAnalysisFail

\* main(): monitor.monitor(); monitor.save_and_plot()
Spec == Init /\ [][Next]_vars

\* A further call of analyze_intervals() on the session object once main() has
\* used it (the analyzer exercised again on the same session).
AnalyzeAgain ==
    /\ pc = "exit"
    /\ analyses >= 1
    /\ analyses <= MaxCalls
    /\ CallAnalyze
    /\ UNCHANGED <<pc, running, current_idx, power, now, files>>
    /\ UNCHANGED late

NextRepeat == Next \/ AnalyzeAgain

SpecRepeat == Init /\ [][NextRepeat]_vars

\* The steps of the main thread inside and after the loop body.
Steps ==
    \/ PollOk
    \/ PollFail
    \/ AppendReading
    \/ Detect
    \/ Increment
    \/ Sleep
    \/ SaveNoData
    \/ SaveCsv
    \/ SavePlot
    \/ Analyze
    \/ WriteAnalysis
    \/ SaveCsvFail
    \/ SavePlotFail
    \/ WriteAnalysisFail

\* The loop test of a session that enters the loop at most MaxFairTicks times.
LoopTestFair ==
    /\ LoopTest
    /\ pc' = "poll" => now < MaxFairTicks

NextFair ==
    \/ HandleExit
    \/ LoopTestFair
    \/ Steps

\* main() with a main thread that keeps running: requests.get(..., timeout=2)
\* returns or raises within its timeout and time.sleep() returns, so the
\* thread always takes its next step.  Nothing obliges a signal to arrive.
SpecFair == Init /\ [][NextFair]_vars /\ WF_vars(LoopTestFair \/ Steps)

(* ---------------------- definitions for the properties ---------------- *)

\* The power values of a log, in order.
PowerOf(d) == [i \in 1..Len(d) |-> d[i][2]]

\* The sample indices (counted from 0) i >= 1 with power[i] != power[i-1].
ChangeSet(pw) == {i \in 1..(Len(pw) - 1) : pw[i + 1] # pw[i]}

RECURSIVE Ascending(_)
Ascending(S) ==
    IF S = {} THEN <<>>
    ELSE LET m == CHOOSE x \in S : \A y \in S : x <= y
         IN  <<m>> \o Ascending(S \ {m})

ChangeIndices(pw) == Ascending(ChangeSet(pw))

\* Consecutive differences of a sequence of indices.
Gaps(ci) == [k \in 1..(Len(ci) - 1) |-> ci[k + 1] - ci[k]]

Constant(pw) == \A i, j \in 1..Len(pw) : pw[i] = pw[j]

Elements(s) == {s[i] : i \in 1..Len(s)}
Least(S) == CHOOSE x \in S : \A y \in S : x <= y
Greatest(S) == CHOOSE x \in S : \A y \in S : x >= y

RECURSIVE Total(_)
Total(s) == IF s = <<>> THEN 0 ELSE Total(SubSeq(s, 1, Len(s) - 1)) + s[Len(s)]

\* The recorded gap list without its last entry.
AllButLast(s) == [i \in 1..(Len(s) - 1) |-> s[i]]

Analyzed == analysis # None
Insufficient(a) == a \in {NotEnoughData, NotEnoughIntervals}
IsReport(a) == ~Insufficient(a)
Recommends(a) ==
    \E i \in 1..Len(a) : a[i][1] = "You can safely increase the sampling interval to"

\* The detector has seen every reading of the log.
LogProcessed == pc # "detect"

LoopBoundary ==
    pc \in {"loop", "save", "plot", "analyze", "write", "exit", "crashed"}

\* The loop of monitor() has been left.
LoopExited == pc \in {"save", "plot", "analyze", "write", "exit", "crashed"}

(* ------------------------------ properties ---------------------------- *)

\* C1: every step of a loop iteration whose poll fails (the failed poll, then
\* the sleep) leaves data, current_idx, last_measurement, last_change_idx,
\* intervals and running as they were, and leads back to the loop test: the
\* sample index is not advanced and the session goes on.
C1_FailedPollFrame ==
    [][(pc \in {"poll", "sleep"} /\ pc' # pc /\ power' = None)
        => /\ UNCHANGED <<data, current_idx, last_measurement, last_change_idx,
                          intervals, running>>
           /\ pc' \in {"sleep", "loop"}]_vars

\* A failed iteration has completed between successful ones, the session still
\* running.
C1_Witness ==
    /\ pc = "loop"
    /\ power = None
    /\ running
    /\ Len(data) >= 1
    /\ now > Len(data)

\* C2: at every loop-iteration boundary current_idx = len(data); the index
\* passed to check_value_change is the position (from 0) in the log of the
\* reading just appended, whatever polls failed before.
C2_IndexIsLogPosition ==
    /\ LoopBoundary => current_idx = Len(data)
    /\ pc = "detect" => /\ current_idx = Len(data) - 1
                        /\ data[current_idx + 1] = <<now, Val(power)>>
    /\ Len(data) <= now + 1

\* check_value_change is about to be called for the third reading after at
\* least one failed poll.
C2_Witness ==
    /\ pc = "detect"
    /\ current_idx = 2
    /\ now > current_idx

\* C3 (as claimed): the gaps used for the statistics are change-to-change gaps
\* only, the k-th of them being the distance between the k-th and the (k+1)-th
\* change index; the gap from sample index 0 to the first change is not among
\* them.
C3_FirstGapDiscarded ==
    (Analyzed /\ IsReport(Val(analysis)))
        => LET used == AllButLast(intervals)
               ci == ChangeIndices(PowerOf(data))
           IN  \A k \in 1..Len(used) :
                   /\ k + 1 <= Len(ci)
                   /\ used[k] = ci[k + 1] - ci[k]

\* C4 (as claimed): once the detector has seen the whole log, intervals equals
\* the consecutive differences between the change indices of the log.
C4_IntervalsAreChangeGaps ==
    LogProcessed => intervals = Gaps(ChangeIndices(PowerOf(data)))

\* C5 (as claimed): InsufficientData whenever fewer than 2 gaps remain after
\* the trailing gap has been discarded.
C5_TwoGapsAfterDiscard ==
    (Analyzed /\ Len(AllButLast(intervals)) < 2) => Insufficient(Val(analysis))

\* C5 (amended): InsufficientData exactly when fewer than 2 gaps were recorded,
\* the test being made before the trailing gap is discarded, that is exactly
\* when no gap remains after the discard; with exactly 2 recorded gaps the
\* result is a report over the one gap that remains.
C5_TwoGapsBeforeDiscard ==
    Analyzed
        => /\ Insufficient(Val(analysis)) <=> Len(intervals) < 2
           /\ Insufficient(Val(analysis)) <=> AllButLast(intervals) = <<>>
           /\ Len(intervals) = 2
                => /\ IsReport(Val(analysis))
                   /\ Val(analysis)[4] = <<"Minimum", intervals[1], 10 * intervals[1]>>

\* A session with exactly 2 recorded gaps has been analyzed.
C5_Witness ==
    /\ Analyzed
    /\ Len(intervals) = 2
    /\ IsReport(Val(analysis))

\* C6: a report gives the minimum, the average (to the nearest tenth) and the
\* maximum of the recorded gap list without its last entry, nothing else
\* removed, and that list is not empty.
C6_StatsOverAllButLast ==
    (Analyzed /\ IsReport(Val(analysis)))
        => LET a == Val(analysis)
               used == AllButLast(intervals)
               n == Len(used)
           IN  /\ n = Len(intervals) - 1
               /\ n >= 1
               /\ a[4][2] = Least(Elements(used))
               /\ a[6][2] = Greatest(Elements(used))
               /\ 2 * (10 * Total(used) - a[5][2] * n) <= n
               /\ 2 * (a[5][2] * n - 10 * Total(used)) <= n
               /\ a[4][3] = a[4][2] * sampling_period
               /\ a[6][3] = a[6][2] * sampling_period
               /\ a[5][3] = a[5][2]

\* A report over two different gaps, the discarded last gap being smaller than
\* both.
C6_Witness ==
    /\ Analyzed
    /\ Len(intervals) = 3
    /\ intervals[1] # intervals[2]
    /\ intervals[3] < intervals[1]
    /\ intervals[3] < intervals[2]
    /\ IsReport(Val(analysis))

\* C7: the recommendation is in the result if and only if the result is a
\* report and the minimum of the gaps used is >= 2.
C7_RecommendIffMinAtLeastTwo ==
    Analyzed
        => (Recommends(Val(analysis))
              <=> /\ IsReport(Val(analysis))
                  /\ Least(Elements(AllButLast(intervals))) >= 2)

\* A report whose minimum is exactly 2 carries the recommendation.
C7_Witness ==
    /\ Analyzed
    /\ IsReport(Val(analysis))
    /\ Least(Elements(AllButLast(intervals))) = 2
    /\ Recommends(Val(analysis))

C9_OneChangeInsufficient ==
    (Analyzed /\ Cardinality(ChangeSet(PowerOf(data))) = 1)
        => /\ AllButLast(intervals) = <<>>
           /\ Insufficient(Val(analysis))

\* A session whose only change lies in the middle of the log has been analyzed.
C9_Witness ==
    /\ Analyzed
    /\ ChangeSet(PowerOf(data)) = {2}
    /\ Len(data) >= 4

\* C10: a call of analyze_intervals leaves data, intervals, last_measurement
\* and last_change_idx unchanged, and a call that follows another returns what
\* the earlier one returned.
C10_AnalyzeReadOnly ==
    [][analyses' # analyses
        => /\ UNCHANGED <<data, intervals, last_measurement, last_change_idx>>
           /\ analyses >= 1 => analysis' = analysis]_vars

\* The analyzer has been called again on a session that yields a report.
C10_Witness ==
    /\ analyses >= 2
    /\ IsReport(Val(analysis))

\* C11: a session that ends with no reading prints the no-data notice and
\* returns normally with no CSV, no plot, no analysis file and the analyzer
\* never called; an artifact or an analysis exists only if the log is not empty.
C11_NoDataNoArtifacts ==
    /\ (LoopExited /\ data = <<>>)
          => /\ pc \in {"save", "exit"}
             /\ csv_file = None
             /\ plot_file = None
             /\ analysis_file = None
             /\ analyses = 0
             /\ analysis = None
             /\ pc = "exit" => no_data_notice
    /\ (csv_file # None \/ plot_file # None \/ analysis_file # None \/ analyses > 0)
          => /\ data # <<>>
             /\ ~no_data_notice

\* A session in which every poll failed has ended with the notice.
C11_Witness ==
    /\ pc = "exit"
    /\ data = <<>>
    /\ now >= 2
    /\ no_data_notice

\* C12: running starts true; the only step that changes it sets it to false
\* and changes nothing else; once false it stays false; once the loop has been
\* left it is never entered again, no poll is issued and data does not change.
C12_StoppedIsTerminal ==
    /\ running = TRUE
    /\ [][running' # running
            => /\ running /\ ~running'
               /\ UNCHANGED <<pc, session, current_idx, power, now, analysis,
                              analyses, files, late>>]_vars
    /\ [][~running => ~running']_vars
    /\ [][LoopExited => (LoopExited' /\ data' = data)]_vars

\* A stopped session with readings has run to its end.
C12_Witness ==
    /\ pc = "exit"
    /\ ~running
    /\ Len(data) >= 2

\* C13: the loop is left only from its test, and only with the flag set; at
\* most one reading is appended after the flag was set; when the loop has been
\* left every reading of the log has been seen by the detector and counted.
C13_StopAtBoundaryOnly ==
    /\ [](late <= 1)
    /\ [](LoopExited
            => /\ current_idx = Len(data)
               /\ data # <<>> => last_measurement = Some(data[Len(data)][2]))
    /\ [][(~LoopExited /\ LoopExited') => (pc = "loop" /\ ~running)]_vars
    /\ [][(pc = "loop" /\ pc' # pc) => (pc' = "save" <=> ~running)]_vars

\* The signal arrived during an iteration before its append, and the loop was
\* left with that reading recorded.
C13_Witness ==
    /\ pc = "save"
    /\ late = 1
    /\ Len(data) >= 2

\* C14: once the stop signal has been delivered the loop is eventually left
\* and output generation is reached, whatever the device does; and the loop is
\* never left unless the stop signal has been delivered.
C14_StopLeadsToOutput ==
    /\ (~running) ~> LoopExited
    /\ [](LoopExited => ~running)

\* Output generation has been reached after a last poll that failed.
C14_Witness ==
    /\ pc = "save"
    /\ ~running
    /\ power = None
    /\ Len(data) >= 1

\* C15 (as claimed): in every session that has ended, analyze_intervals has run
\* exactly once.
C15_ExactlyOnce == pc \in {"exit", "crashed"} => analyses = 1

\* C15 (amended): analyze_intervals runs at most once, only after the loop has
\* been left with the flag false and only with a non-empty log; a session that
\* returns normally has run it exactly once if its log is not empty and never
\* if its log is empty; data and intervals do not change once the loop is left.
C15_AtMostOnceAfterLoop ==
    /\ [](analyses <= 1)
    /\ [](analyses = 1 => (LoopExited /\ ~running /\ data # <<>>))
    /\ [](pc = "exit" => (analyses = 1 <=> data # <<>>))
    /\ [][LoopExited => UNCHANGED <<data, intervals>>]_vars

\* A session with recorded gaps has returned normally after its one analysis.
C15_Witness ==
    /\ pc = "exit"
    /\ analyses = 1
    /\ Len(intervals) >= 2

\* C16: every step leaves data as it is or appends one reading at its end, and
\* leaves intervals as it is or appends one gap at its end.
C16_AppendOnly ==
    [][/\ \/ data' = data
          \/ /\ Len(data') = Len(data) + 1
             /\ SubSeq(data', 1, Len(data)) = data
       /\ \/ intervals' = intervals
          \/ /\ Len(intervals') = Len(intervals) + 1
             /\ SubSeq(intervals', 1, Len(intervals)) = intervals]_vars

\* The log and the gap list have both grown several times.
C16_Witness ==
    /\ Len(data) >= 3
    /\ Len(intervals) >= 2

====
